---- MODULE Spec2Model ----
(***************************************************************************)
(* The two line-protocol annotation services of server/:                   *)
(*   lemmatizer-service.py  (simplemma engine, lemma only)                 *)
(*   spacy-service.py       (spaCy engine, lemmatize + analyze)            *)
(* Each service is a loop over the lines of standard input; one iteration  *)
(* of the loop is one action.  The linguistic engines are external: a call *)
(* to one is a nondeterministic choice among its possible outcomes (a      *)
(* fault, or a result).  Strings that the code inspects (words, lemmas,    *)
(* feature strings) are sequences of one-character strings; messages that  *)
(* the code only passes on are TLA+ strings.  A Python dict is a function  *)
(* whose DOMAIN is the set of its keys.  The confidences 0.95, 0.3 and 0.0 *)
(* are counted in hundredths.                                              *)
(***************************************************************************)
EXTENDS Integers, Sequences, FiniteSets, TLC

VARIABLES service, pc, consumed, out, lastCall, feature, morphOut

vars == <<service, pc, consumed, out, lastCall, feature, morphOut>>

(***************************************************************************)
(* Bounds of the model.                                                    *)
(***************************************************************************)
MaxLines == 2
MaxCands == 2
MaxTokens == 1
MaxMorphLen == 4

(***************************************************************************)
(* Python built-ins the services use.                                      *)
(***************************************************************************)
LowerChar(c) == IF c = "A" THEN "a" ELSE c

\* str.lower()
Lower(w) == [i \in 1..Len(w) |-> LowerChar(w[i])]

\* dict.get(key, default)
Get(d, key, default) == IF key \in DOMAIN d THEN d[key] ELSE default

\* str.find(c) + 1: the first position of c in s, 0 when c is not in s
Find(s, c) ==
  IF \E i \in 1..Len(s) : s[i] = c
    THEN CHOOSE i \in 1..Len(s) : s[i] = c /\ \A j \in 1..(i - 1) : s[j] # c
    ELSE 0

\* c in s
Contains(s, c) == Find(s, c) # 0

RECURSIVE Split(_, _)
\* str.split(sep): "" gives [""], "a|" gives ["a", ""]
Split(s, sep) ==
  LET i == Find(s, sep)
  IN  IF i = 0 THEN <<s>>
      ELSE <<SubSeq(s, 1, i - 1)>> \o Split(SubSeq(s, i + 1, Len(s)), sep)

\* SplitFirst with a fault: the segment is cut at its last separator
SplitLast(s, sep) ==
  LET i == CHOOSE k \in 1..Len(s) : s[k] = sep /\ \A j \in (k + 1)..Len(s) : s[j] # sep
  IN  <<SubSeq(s, 1, i - 1), SubSeq(s, i + 1, Len(s))>>

\* str.split(sep, 1) of a string that contains sep: [before, after] the first
SplitFirst(s, sep) ==
  LET i == Find(s, sep)
  IN  <<SubSeq(s, 1, i - 1), SubSeq(s, i + 1, Len(s))>>

(***************************************************************************)
(* Morphology parsing: the two copies of the loop in spacy-service.py.     *)
(* token.morph is modelled by its feature string str(token.morph); it is   *)
(* falsy exactly when it holds no feature, that is when the string is "".  *)
(***************************************************************************)
RECURSIVE LemmatizeMorphLoop(_, _)
LemmatizeMorphLoop(features, morph_dict) ==
  IF features = <<>> THEN morph_dict
  ELSE LET f == Head(features)
       IN  IF Contains(f, "=")
             THEN LET kv == SplitFirst(f, "=")
                  IN  LemmatizeMorphLoop(Tail(features), (kv[1] :> kv[2]) @@ morph_dict)
             ELSE LemmatizeMorphLoop(Tail(features), morph_dict)

MorphDictLemmatize(morph) ==
  IF morph # <<>> THEN LemmatizeMorphLoop(Split(morph, "|"), <<>>) ELSE <<>>

RECURSIVE AnalyzeMorphLoop(_, _)
AnalyzeMorphLoop(features, morph_dict) ==
  IF features = <<>> THEN morph_dict
  ELSE LET f == Head(features)
       IN  IF Contains(f, "=")
             THEN LET kv == SplitFirst(f, "=")
                  IN  AnalyzeMorphLoop(Tail(features), (kv[1] :> kv[2]) @@ morph_dict)
             ELSE AnalyzeMorphLoop(Tail(features), morph_dict)

MorphDictAnalyze(morph) ==
  IF morph # <<>> THEN AnalyzeMorphLoop(Split(morph, "|"), <<>>) ELSE <<>>

(***************************************************************************)
(* The engines.  simplemma.lemmatize and spaCy's nlp are not part of the   *)
(* repository: a call either raises (a fault with a message) or returns.   *)
(* A lemma the engine proposes is a word form, hence a non-empty string.   *)
(***************************************************************************)
LemmaStrs == {<<"a">>, <<"A">>, <<"b">>}

FaultMessages == {"engine fault"}

\* the candidates simplemma returns, in the order list(lemmas) iterates them
CandidateLists ==
  {c \in UNION {[1..n -> LemmaStrs] : n \in 0..MaxCands} :
     \A i, j \in 1..Len(c) : i # j => c[i] # c[j]}

SimplemmaOutcomes ==
  {[fault |-> TRUE, msg |-> m] : m \in FaultMessages}
    \cup {[fault |-> FALSE, lemmas |-> c] : c \in CandidateLists}

TokenMorphs == {<<"k", "=", "v", "|", "x">>}

\* a spaCy token: the attributes the service reads
Tokens ==
  {[text |-> <<"a">>, lemma_ |-> l, pos_ |-> "NOUN", tag_ |-> "NN", dep_ |-> "sb",
    head_text |-> <<"a">>, has_vector |-> FALSE, vector_norm |-> <<0>>, morph |-> m] :
     l \in LemmaStrs, m \in TokenMorphs}

\* a spaCy Doc: its tokens and its named entities
Docs ==
  {[tokens |-> ts, ents |-> <<>>] : ts \in UNION {[1..n -> Tokens] : n \in 0..MaxTokens}}

SpacyOutcomes ==
  {[fault |-> TRUE, msg |-> m] : m \in FaultMessages}
    \cup {[fault |-> FALSE, doc |-> d] : d \in Docs}

(***************************************************************************)
(* Confidence tiers, in hundredths.                                        *)
(***************************************************************************)
ConfModel == 95
ConfUnchanged == 30
ConfError == 0

(***************************************************************************)
(* lemmatizer-service.py: lemmatize(word)                                  *)
(***************************************************************************)
\* lemmatize with a fault: the last candidate is taken, not the first
lemmatizeLastCandidate(word, eng) ==
  IF eng.fault
    THEN [word |-> word, lemma |-> word, confidence |-> ConfError,
          error |-> eng.msg, method |-> "error"]
    ELSE IF eng.lemmas # <<>>
      THEN LET lemma == eng.lemmas[Len(eng.lemmas)]
           IN  [word |-> word, lemma |-> lemma,
                confidence |-> IF lemma # word THEN ConfModel ELSE ConfUnchanged,
                method |-> "simplemma"]
      ELSE [word |-> word, lemma |-> word, confidence |-> ConfUnchanged,
            method |-> "heuristic"]

\* lemmatize with a fault: an unchanged word is labelled "heuristic"
lemmatizeHeuristicLabel(word, eng) ==
  IF eng.fault
    THEN [word |-> word, lemma |-> word, confidence |-> ConfError,
          error |-> eng.msg, method |-> "error"]
    ELSE IF eng.lemmas # <<>>
      THEN LET lemma == eng.lemmas[1]
           IN  [word |-> word, lemma |-> lemma,
                confidence |-> IF lemma # word THEN ConfModel ELSE ConfUnchanged,
                method |-> IF lemma # word THEN "simplemma" ELSE "heuristic"]
      ELSE [word |-> word, lemma |-> word, confidence |-> ConfUnchanged,
            method |-> "heuristic"]

lemmatize(word, eng) ==
  IF eng.fault
    THEN [word |-> word, lemma |-> word, confidence |-> ConfError,
          error |-> eng.msg, method |-> "error"]
    ELSE IF eng.lemmas # <<>>
      THEN LET lemma == eng.lemmas[1]
           IN  [word |-> word, lemma |-> lemma,
                confidence |-> IF lemma # word THEN ConfModel ELSE ConfUnchanged,
                method |-> "simplemma"]
      ELSE [word |-> word, lemma |-> word, confidence |-> ConfUnchanged,
            method |-> "heuristic"]

(***************************************************************************)
(* spacy-service.py: lemmatize_word(word), analyze_sentence(text)          *)
(***************************************************************************)
\* lemmatize_word with a fault: an empty document is a heuristic answer
lemmatize_wordEmptyHeuristic(word, eng) ==
  IF eng.fault
    THEN [word |-> word, lemma |-> word, confidence |-> ConfError,
          error |-> eng.msg, method |-> "error"]
    ELSE IF Len(eng.doc.tokens) > 0
      THEN LET token == eng.doc.tokens[1]
           IN  [word |-> word, lemma |-> token.lemma_, pos |-> token.pos_,
                tag |-> token.tag_, dep |-> token.dep_,
                morph |-> MorphDictLemmatize(token.morph),
                confidence |-> ConfModel, method |-> "spacy"]
      ELSE [word |-> word, lemma |-> word, confidence |-> ConfUnchanged,
            method |-> "heuristic"]

\* lemmatize_word with a fault: a fault is reported with the unchanged tier
lemmatize_wordFaultTier(word, eng) ==
  IF eng.fault
    THEN [word |-> word, lemma |-> word, confidence |-> ConfUnchanged,
          error |-> eng.msg, method |-> "error"]
    ELSE IF Len(eng.doc.tokens) > 0
      THEN LET token == eng.doc.tokens[1]
           IN  [word |-> word, lemma |-> token.lemma_, pos |-> token.pos_,
                tag |-> token.tag_, dep |-> token.dep_,
                morph |-> MorphDictLemmatize(token.morph),
                confidence |-> ConfModel, method |-> "spacy"]
      ELSE [word |-> word, lemma |-> word, confidence |-> ConfError,
            error |-> "Empty document", method |-> "error"]

lemmatize_word(word, eng) ==
  IF eng.fault
    THEN [word |-> word, lemma |-> word, confidence |-> ConfError,
          error |-> eng.msg, method |-> "error"]
    ELSE IF Len(eng.doc.tokens) > 0
      THEN LET token == eng.doc.tokens[1]
           IN  [word |-> word, lemma |-> token.lemma_, pos |-> token.pos_,
                tag |-> token.tag_, dep |-> token.dep_,
                morph |-> MorphDictLemmatize(token.morph),
                confidence |-> ConfModel, method |-> "spacy"]
      ELSE [word |-> word, lemma |-> word, confidence |-> ConfError,
            error |-> "Empty document", method |-> "error"]

\* one entry of "tokens"; vector_norm is <<>> for None, <<n>> for a float
TokenAnnotation(token) ==
  [text |-> token.text, lemma |-> token.lemma_, pos |-> token.pos_,
   tag |-> token.tag_, dep |-> token.dep_, head |-> token.head_text,
   has_vector |-> token.has_vector,
   vector_norm |-> IF token.has_vector THEN token.vector_norm ELSE <<>>,
   morph |-> MorphDictAnalyze(token.morph)]

analyze_sentence(text, eng) ==
  IF eng.fault
    THEN [success |-> FALSE, text |-> text, error |-> eng.msg, method |-> "error"]
    ELSE [success |-> TRUE, text |-> text,
          tokens |-> [i \in 1..Len(eng.doc.tokens) |-> TokenAnnotation(eng.doc.tokens[i])],
          entities |-> eng.doc.ents, method |-> "spacy"]

(***************************************************************************)
(* Input lines.  A line is empty, holds only whitespace, holds text that   *)
(* is not JSON, or holds a JSON value: an object (a dict) or another value. *)
(***************************************************************************)
ActionParts == {<<>>} \cup {("action" :> a) : a \in {"lemmatize", "analyze", "unknown", "Lemmatize"}}

WordParts == {<<>>} \cup {("word" :> w) : w \in {<<>>, <<"A">>}}

TextParts == {<<>>} \cup {("text" :> t) : t \in {<<>>, <<"b">>}}

BlankLines == {[kind |-> "empty"], [kind |-> "space"]}

OtherLines == {[kind |-> "text"], [kind |-> "json", isObject |-> FALSE]}

ObjectLine(d) == [kind |-> "json", isObject |-> TRUE, value |-> d]

LemmatizerLines ==
  BlankLines \cup OtherLines
    \cup {ObjectLine(w @@ a) : w \in WordParts, a \in {<<>>, ("action" :> "analyze")}}

\* the request objects sent to the rich service: a request carries a word or
\* a text; one that carries both is sent with an action the service does not know
SpacyRequests ==
  {d \in {a @@ w @@ t : a \in ActionParts, w \in WordParts, t \in TextParts} :
     {"word", "text"} \subseteq DOMAIN d => Get(d, "action", "") \in {"unknown", "Lemmatize"}}

SpacyLines == BlankLines \cup OtherLines \cup {ObjectLine(d) : d \in SpacyRequests}

\* IsBlank with a fault: the line is tested without being stripped
IsBlankUnstripped(line) == line.kind = "empty"

\* line = line.strip(); if not line
IsBlank(line) == line.kind \in {"empty", "space"}

\* str(e) of the JSONDecodeError json.loads raises
JsonDecodeMsg == "Expecting value"

\* JsonLoads with a fault: text that is not JSON is read as an empty object
JsonLoadsLenient(line) ==
  IF line.kind # "json"
    THEN [raised |-> "none", isObject |-> TRUE, value |-> <<>>]
    ELSE IF line.isObject
      THEN [raised |-> "none", isObject |-> TRUE, value |-> line.value]
      ELSE [raised |-> "none", isObject |-> FALSE]

\* json.loads(line)
JsonLoads(line) ==
  IF line.kind # "json"
    THEN [raised |-> "JSONDecodeError", msg |-> JsonDecodeMsg]
    ELSE IF line.isObject
      THEN [raised |-> "none", isObject |-> TRUE, value |-> line.value]
      ELSE [raised |-> "none", isObject |-> FALSE]

(***************************************************************************)
(* The outcome of the try block of one iteration: what it wrote, the       *)
(* exception it raised (if any) and the engine call it made (if any).      *)
(***************************************************************************)
NoCall == [called |-> FALSE]

Call(fn, arg, eng) == [called |-> TRUE, fn |-> fn, arg |-> arg, eng |-> eng]

Wrote(responses, call) == [raised |-> "none", writes |-> responses, call |-> call]

Raised(type, msg) == [raised |-> type, msg |-> msg, writes |-> <<>>, call |-> NoCall]

\* isinstance(e, cls) for the exception types that occur: all derive from Exception
IsInstance(type, cls) == cls = "Exception" \/ type = cls

\* request.get(...) on a value that is not a dict
AttributeErrorMsg == "object has no attribute 'get'"

(***************************************************************************)
(* lemmatizer-service.py: main()                                           *)
(***************************************************************************)
\* LemmatizerTry with a fault: the word is not tested for emptiness
LemmatizerTryNoWordTest(line, eng) ==
  IF IsBlank(line) THEN Wrote(<<>>, NoCall)
  ELSE LET request == JsonLoads(line)
       IN  IF request.raised # "none" THEN Raised(request.raised, request.msg)
           ELSE IF ~request.isObject THEN Raised("AttributeError", AttributeErrorMsg)
           ELSE LET word == Lower(Get(request.value, "word", <<>>))
                IN  Wrote(<<lemmatize(word, eng)>>, Call("lemmatize", word, eng))

LemmatizerTry(line, eng) ==
  IF IsBlank(line) THEN Wrote(<<>>, NoCall)
  ELSE LET request == JsonLoads(line)
       IN  IF request.raised # "none" THEN Raised(request.raised, request.msg)
           ELSE IF ~request.isObject THEN Raised("AttributeError", AttributeErrorMsg)
           ELSE LET word == Lower(Get(request.value, "word", <<>>))
                IN  IF word = <<>>
                      THEN Wrote(<<[error |-> "Missing word field"]>>, NoCall)
                      ELSE Wrote(<<lemmatize(word, eng)>>, Call("lemmatize", word, eng))

LemmatizerExcept(t) ==
  IF t.raised = "none" THEN [writes |-> t.writes, escaped |-> FALSE]
  ELSE IF IsInstance(t.raised, "JSONDecodeError")
    THEN [writes |-> <<[error |-> "Invalid JSON"]>>, escaped |-> FALSE]
  ELSE IF IsInstance(t.raised, "Exception")
    THEN [writes |-> <<[error |-> t.msg]>>, escaped |-> FALSE]
  ELSE [writes |-> <<>>, escaped |-> TRUE]

(***************************************************************************)
(* spacy-service.py: main()                                                *)
(***************************************************************************)
\* SpacyAction with a fault: a request without action is an analyze request
SpacyActionAnalyzeDefault(request) == Get(request, "action", "analyze")

\* action = request.get("action", "lemmatize")
SpacyAction(request) == Get(request, "action", "lemmatize")

\* SpacyTextMissing with a fault: only an absent text is missing
SpacyTextAbsent(request) == "text" \notin DOMAIN request

\* text = request.get("text", ""); if not text
SpacyTextMissing(request) == Get(request, "text", <<>>) = <<>>

SpacyTry(line, eng) ==
  IF IsBlank(line) THEN Wrote(<<>>, NoCall)
  ELSE LET request == JsonLoads(line)
       IN  IF request.raised # "none" THEN Raised(request.raised, request.msg)
           ELSE IF ~request.isObject THEN Raised("AttributeError", AttributeErrorMsg)
           ELSE LET action == SpacyAction(request.value)
                IN  IF action = "lemmatize"
                      THEN LET word == Lower(Get(request.value, "word", <<>>))
                           IN  IF word = <<>>
                                 THEN Wrote(<<[error |-> "Missing word field"]>>, NoCall)
                                 ELSE Wrote(<<lemmatize_word(word, eng)>>,
                                            Call("lemmatize", word, eng))
                    ELSE IF action = "analyze"
                      THEN IF SpacyTextMissing(request.value)
                             THEN Wrote(<<[error |-> "Missing text field"]>>, NoCall)
                             ELSE LET text == request.value["text"]
                                  IN  Wrote(<<analyze_sentence(text, eng)>>,
                                            Call("analyze", text, eng))
                    ELSE Wrote(<<[error |-> "Unknown action: " \o action]>>, NoCall)

SpacyExcept(t) ==
  IF t.raised = "none" THEN [writes |-> t.writes, escaped |-> FALSE]
  ELSE IF IsInstance(t.raised, "JSONDecodeError")
    THEN [writes |-> <<[error |-> "Invalid JSON: " \o t.msg]>>, escaped |-> FALSE]
  ELSE IF IsInstance(t.raised, "Exception")
    THEN [writes |-> <<[error |-> "Unexpected error: " \o t.msg]>>, escaped |-> FALSE]
  ELSE [writes |-> <<>>, escaped |-> TRUE]

(***************************************************************************)
(* The services.  service is the program that runs; consumed is the lines  *)
(* read from standard input so far, out the lines written to standard      *)
(* output, lastCall the engine call of the latest iteration.               *)
(***************************************************************************)
Init ==
  /\ service \in {"simplemma", "spacy"}
  /\ pc = "loop"
  /\ consumed = <<>>
  /\ out = <<>>
  /\ lastCall = NoCall
  /\ feature = <<>>
  /\ morphOut = <<>>

\* one iteration of "for line in sys.stdin" in lemmatizer-service.py
LemmatizerMain ==
  /\ service = "simplemma"
  /\ pc = "loop"
  /\ Len(consumed) < MaxLines
  /\ \E line \in LemmatizerLines, eng \in SimplemmaOutcomes :
       LET t == LemmatizerTry(line, eng)
           r == LemmatizerExcept(t)
       IN  /\ consumed' = Append(consumed, line)
           /\ out' = out \o r.writes
           /\ lastCall' = t.call
           /\ pc' = IF r.escaped THEN "crashed" ELSE "loop"
  /\ UNCHANGED <<service, feature, morphOut>>

\* one iteration of "for line in sys.stdin" in spacy-service.py
SpacyMain ==
  /\ service = "spacy"
  /\ pc = "loop"
  /\ Len(consumed) < MaxLines
  /\ \E line \in SpacyLines, eng \in SpacyOutcomes :
       LET t == SpacyTry(line, eng)
           r == SpacyExcept(t)
       IN  /\ consumed' = Append(consumed, line)
           /\ out' = out \o r.writes
           /\ lastCall' = t.call
           /\ pc' = IF r.escaped THEN "crashed" ELSE "loop"
  /\ UNCHANGED <<service, feature, morphOut>>

\* standard input is closed: the for loop ends and main returns
EndOfInput ==
  /\ pc = "loop"
  /\ pc' = "done"
  /\ UNCHANGED <<service, consumed, out, lastCall, feature, morphOut>>

Next == LemmatizerMain \/ SpacyMain \/ EndOfInput

Spec == Init /\ [][Next]_vars

(***************************************************************************)
(* Morphology parsing on its own: a feature string is drawn, and each copy *)
(* of the parsing loop is applied to it.                                   *)
(***************************************************************************)
MorphChars == {"k", "v", "=", "|"}

FeatureStrings == UNION {[1..n -> MorphChars] : n \in 0..MaxMorphLen}

InitMorph ==
  /\ service = "spacy"
  /\ pc = "morph"
  /\ consumed = <<>>
  /\ out = <<>>
  /\ lastCall = NoCall
  /\ feature \in FeatureStrings
  /\ morphOut = <<>>

ParseInLemmatizeWord ==
  /\ pc = "morph"
  /\ "lemmatize_word" \notin DOMAIN morphOut
  /\ morphOut' = ("lemmatize_word" :> MorphDictLemmatize(feature)) @@ morphOut
  /\ UNCHANGED <<service, pc, consumed, out, lastCall, feature>>

ParseInAnalyzeSentence ==
  /\ pc = "morph"
  /\ "analyze_sentence" \notin DOMAIN morphOut
  /\ morphOut' = ("analyze_sentence" :> MorphDictAnalyze(feature)) @@ morphOut
  /\ UNCHANGED <<service, pc, consumed, out, lastCall, feature>>

NextMorph == ParseInLemmatizeWord \/ ParseInAnalyzeSentence

SpecMorph == InitMorph /\ [][NextMorph]_vars

(***************************************************************************)
(* Properties.  What a line asks for is read off the line itself.          *)
(***************************************************************************)
\* the lines read so far that are neither empty nor whitespace only
Answered == SelectSeq(consumed, LAMBDA l : l.kind \notin {"empty", "space"})

LastOut == out[Len(out)]

LastLine == consumed[Len(consumed)]

IsObjectLine(l) == l.kind = "json" /\ l.isObject

HasWord(l) == IsObjectLine(l) /\ "word" \in DOMAIN l.value /\ l.value["word"] # <<>>

HasText(l) == IsObjectLine(l) /\ "text" \in DOMAIN l.value /\ l.value["text"] # <<>>

\* the action a request object names: "lemmatize" when it names none, and
\* always "lemmatize" in the lemmatizer-only service
ActionOf(l) ==
  IF service = "spacy" /\ "action" \in DOMAIN l.value THEN l.value["action"]
  ELSE "lemmatize"

SameIgnoringCase(a, b) ==
  /\ Len(a) = Len(b)
  /\ \A i \in 1..Len(a) :
       (IF a[i] = "A" THEN "a" ELSE a[i]) = (IF b[i] = "A" THEN "a" ELSE b[i])

\* the response resp is a response to the line l
Fits(l, resp) ==
  IF IsObjectLine(l) /\ ActionOf(l) = "lemmatize" /\ HasWord(l)
    THEN /\ {"word", "lemma", "confidence", "method"} \subseteq DOMAIN resp
         /\ SameIgnoringCase(resp.word, l.value["word"])
  ELSE IF IsObjectLine(l) /\ ActionOf(l) = "analyze" /\ HasText(l)
    THEN /\ {"success", "text", "method"} \subseteq DOMAIN resp
         /\ resp.text = l.value["text"]
  ELSE DOMAIN resp = {"error"}

IsPrefix(a, b) == Len(a) <= Len(b) /\ \A i \in 1..Len(a) : a[i] = b[i]

\* C1: the output holds exactly one response per non-blank line read and none
\* for a blank one, the i-th response answers the i-th non-blank line, and it
\* is on the output before the next line is read (output is only appended to).
C1_OneResponsePerLine ==
  /\ [](/\ Len(out) = Len(Answered)
        /\ \A i \in 1..Len(out) : Fits(Answered[i], out[i]))
  /\ [][IsPrefix(out, out') /\ IsPrefix(consumed, consumed')]_vars

C1_Witness ==
  /\ Len(consumed) = 2
  /\ consumed[1].kind = "space"
  /\ HasWord(consumed[2])
  /\ lastCall.called /\ lastCall.eng.fault
  /\ Len(out) = 1

\* C2: a non-blank line that is not JSON is answered with the Invalid JSON
\* error (followed by the decoder's message in the rich service), no engine is
\* called for it, and the loop goes on answering the lines after it.
C2_MalformedLine ==
  /\ \A i \in 1..Len(Answered) :
       Answered[i].kind = "text" =>
         /\ i <= Len(out)
         /\ out[i] = IF service = "simplemma"
                       THEN [error |-> "Invalid JSON"]
                       ELSE [error |-> "Invalid JSON: " \o JsonDecodeMsg]
  /\ (\E i \in 1..Len(consumed) : consumed[i].kind = "text") =>
       pc # "crashed" /\ Len(out) = Len(Answered)
  /\ (consumed # <<>> /\ LastLine.kind = "text") => ~lastCall.called

C2_Witness ==
  /\ Len(consumed) = 2
  /\ consumed[1].kind = "text"
  /\ HasWord(consumed[2])
  /\ lastCall.called
  /\ Len(out) = 2
  /\ "lemma" \in DOMAIN out[2]

\* the first lemma candidate the engine gave in the latest lemmatize call
FirstCandidate ==
  IF service = "simplemma" THEN lastCall.eng.lemmas[1]
  ELSE lastCall.eng.doc.tokens[1].lemma_

LemmatizeReturned ==
  /\ lastCall.called
  /\ lastCall.fn = "lemmatize"
  /\ ~lastCall.eng.fault

HasCandidate ==
  /\ LemmatizeReturned
  /\ IF service = "simplemma" THEN lastCall.eng.lemmas # <<>>
     ELSE lastCall.eng.doc.tokens # <<>>

\* C3: when the engine's first candidate differs from the word, case ignored,
\* the response carries that candidate as lemma, confidence 0.95, the engine's
\* name as method and no error field.
C3_ReducedWord ==
  (HasCandidate /\ ~SameIgnoringCase(FirstCandidate, lastCall.arg)) =>
    /\ LastOut.word = lastCall.arg
    /\ LastOut.lemma = FirstCandidate
    /\ LastOut.confidence = 95
    /\ LastOut.method = service
    /\ "error" \notin DOMAIN LastOut

C3_Witness ==
  /\ service = "simplemma"
  /\ HasCandidate
  /\ lastCall.arg = <<"a">>
  /\ lastCall.eng.lemmas = << <<"b">>, <<"a">> >>
  /\ LastOut.lemma = <<"b">>
  /\ LastOut.confidence = 95

\* C4 as stated: a word the engine cannot reduce (no candidate, an empty
\* document, or a candidate equal to the word when case is ignored) is answered
\* with confidence 0.3 and the word as lemma, in both services.
C4_Original ==
  (LemmatizeReturned
     /\ (HasCandidate => SameIgnoringCase(FirstCandidate, lastCall.arg))) =>
    /\ LastOut.confidence = 30
    /\ LastOut.lemma = lastCall.arg

\* C4 amended: in the lemmatizer-only service a word for which the engine
\* gives no candidate, or a first candidate equal to the lower-cased word
\* character for character, is answered with confidence 0.3 and the word as
\* lemma.  In the rich service an empty document is answered with the word as
\* lemma, confidence 0.0, method "error" and error "Empty document", and a
\* non-empty document with the first token's lemma and confidence 0.95, also
\* when that lemma is the word.
C4_Unreduced ==
  /\ (service = "simplemma" /\ LemmatizeReturned
        /\ (HasCandidate => FirstCandidate = lastCall.arg)) =>
       /\ LastOut.confidence = 30
       /\ LastOut.lemma = lastCall.arg
  /\ (service = "spacy" /\ LemmatizeReturned /\ ~HasCandidate) =>
       LastOut = [word |-> lastCall.arg, lemma |-> lastCall.arg, confidence |-> 0,
                  error |-> "Empty document", method |-> "error"]
  /\ (service = "spacy" /\ HasCandidate) =>
       /\ LastOut.confidence = 95
       /\ LastOut.lemma = FirstCandidate

C4_Witness ==
  /\ service = "spacy"
  /\ LemmatizeReturned
  /\ ~HasCandidate
  /\ LastOut.confidence = 0
  /\ LastOut.lemma = <<"a">>

\* C5 as stated: in the lemmatizer-only service a response whose lemma is the
\* unchanged word, no fault having occurred, is
\* {word: w, lemma: w, confidence: 0.3, method: "heuristic"}.
C5_Original ==
  (service = "simplemma" /\ LemmatizeReturned /\ LastOut.lemma = lastCall.arg) =>
    LastOut = [word |-> lastCall.arg, lemma |-> lastCall.arg, confidence |-> 30,
               method |-> "heuristic"]

\* C5 amended: in the lemmatizer-only service a word whose first candidate is
\* the word itself is answered with
\* {word: w, lemma: w, confidence: 0.3, method: "simplemma"}; the method is
\* "heuristic" exactly when the engine returned no candidate.
C5_BaseForm ==
  service = "simplemma" /\ LemmatizeReturned =>
    /\ (HasCandidate /\ FirstCandidate = lastCall.arg) =>
         LastOut = [word |-> lastCall.arg, lemma |-> lastCall.arg, confidence |-> 30,
                    method |-> "simplemma"]
    /\ (LastOut.method = "heuristic") <=> ~HasCandidate

C5_Witness ==
  /\ service = "simplemma"
  /\ HasCandidate
  /\ lastCall.arg = <<"a">>
  /\ FirstCandidate = <<"a">>
  /\ LastOut.method = "simplemma"
  /\ LastOut.confidence = 30

\* C6: a fault of the engine in a lemmatize request is answered with the word
\* as lemma, confidence 0.0, method "error" and the fault's message as error,
\* and the loop is not ended by it: every non-blank line read has its response.
C6_EngineFault ==
  (lastCall.called /\ lastCall.fn = "lemmatize" /\ lastCall.eng.fault) =>
    /\ LastOut = [word |-> lastCall.arg, lemma |-> lastCall.arg, confidence |-> 0,
                  error |-> lastCall.eng.msg, method |-> "error"]
    /\ pc # "crashed"
    /\ Len(out) = Len(Answered)

C6_Witness ==
  /\ service = "spacy"
  /\ Len(consumed) = 2
  /\ Len(out) = 2
  /\ {"method", "error"} \subseteq DOMAIN out[1]
  /\ out[1].method = "error"
  /\ out[1].error = "engine fault"
  /\ lastCall.called /\ lastCall.fn = "lemmatize" /\ lastCall.eng.fault

C8_MissingField ==
  /\ \A i \in 1..Len(Answered) :
       IsObjectLine(Answered[i]) =>
         /\ (ActionOf(Answered[i]) = "lemmatize" /\ ~HasWord(Answered[i])) =>
              i <= Len(out) /\ out[i] = [error |-> "Missing word field"]
         /\ (ActionOf(Answered[i]) = "analyze" /\ ~HasText(Answered[i])) =>
              i <= Len(out) /\ out[i] = [error |-> "Missing text field"]
  /\ (consumed # <<>> /\ IsObjectLine(LastLine)
        /\ \/ ActionOf(LastLine) = "lemmatize" /\ ~HasWord(LastLine)
           \/ ActionOf(LastLine) = "analyze" /\ ~HasText(LastLine)) =>
       /\ ~lastCall.called
       /\ pc # "crashed"
       /\ Len(out) = Len(Answered)

C8_Witness ==
  /\ service = "spacy"
  /\ Len(consumed) = 2
  /\ IsObjectLine(consumed[1])
  /\ consumed[1].value = ("action" :> "analyze") @@ ("text" :> <<>>)
  /\ out[1] = [error |-> "Missing text field"]
  /\ HasWord(consumed[2])
  /\ Len(out) = 2

\* C9: in the rich service a request without action is handled as a lemmatize
\* request, and a request whose action is neither "lemmatize" nor "analyze" is
\* answered with exactly the Unknown action error naming that action, whatever
\* else it carries, without an engine call.
C9_ActionDispatch ==
  service = "spacy" =>
    /\ \A i \in 1..Len(Answered) :
         IsObjectLine(Answered[i]) =>
           LET d == Answered[i].value
           IN  /\ "action" \notin DOMAIN d =>
                    /\ i <= Len(out)
                    /\ IF HasWord(Answered[i])
                         THEN /\ {"word", "lemma"} \subseteq DOMAIN out[i]
                              /\ SameIgnoringCase(out[i].word, d["word"])
                         ELSE out[i] = [error |-> "Missing word field"]
               /\ ("action" \in DOMAIN d /\ d["action"] \notin {"lemmatize", "analyze"}) =>
                    /\ i <= Len(out)
                    /\ out[i] = [error |-> "Unknown action: " \o d["action"]]
    /\ (consumed # <<>> /\ IsObjectLine(LastLine)
          /\ ActionOf(LastLine) \notin {"lemmatize", "analyze"}) => ~lastCall.called

C9_Witness ==
  /\ service = "spacy"
  /\ Len(consumed) = 2
  /\ IsObjectLine(consumed[1])
  /\ consumed[1].value = ("action" :> "unknown") @@ ("word" :> <<"A">>) @@ ("text" :> <<"b">>)
  /\ out[1] = [error |-> "Unknown action: unknown"]
  /\ IsObjectLine(consumed[2])
  /\ consumed[2].value = ("word" :> <<"A">>)
  /\ Len(out) = 2
  /\ "word" \in DOMAIN out[2]
  /\ out[2].word = <<"a">>

\* the segments of s between its "|" characters, as <<first, last>> positions
SegmentsOf(s) ==
  {seg \in (1..(Len(s) + 1)) \X (0..Len(s)) :
     /\ seg[1] <= seg[2] + 1
     /\ seg[1] = 1 \/ s[seg[1] - 1] = "|"
     /\ seg[2] = Len(s) \/ s[seg[2] + 1] = "|"
     /\ \A k \in seg[1]..seg[2] : s[k] # "|"}

EqPositions(s, seg) == {k \in seg[1]..seg[2] : s[k] = "="}

FirstEq(s, seg) == CHOOSE k \in EqPositions(s, seg) : \A m \in EqPositions(s, seg) : k <= m

KeyOf(s, seg) == [i \in 1..(FirstEq(s, seg) - seg[1]) |-> s[seg[1] + i - 1]]

ValueOf(s, seg) == [i \in 1..(seg[2] - FirstEq(s, seg)) |-> s[FirstEq(s, seg) + i]]

\* d is the mapping the feature string s denotes
Denotes(s, d) ==
  LET pairs == {seg \in SegmentsOf(s) : EqPositions(s, seg) # {}}
  IN  /\ DOMAIN d = {KeyOf(s, seg) : seg \in pairs}
      /\ \A seg \in pairs :
           (\A later \in pairs : later[1] > seg[1] => KeyOf(s, later) # KeyOf(s, seg)) =>
             d[KeyOf(s, seg)] = ValueOf(s, seg)

\* C10: for every feature string the parsing gives the mapping of its
\* "|"-separated segments that hold "=", each cut at its first "=" into key and
\* value; segments without "=" are dropped; the empty string gives the empty
\* mapping; the copies in lemmatize_word and analyze_sentence agree.
C10_MorphParsing ==
  /\ \A c \in DOMAIN morphOut :
       /\ Denotes(feature, morphOut[c])
       /\ feature = <<>> => DOMAIN morphOut[c] = {}
  /\ DOMAIN morphOut = {"lemmatize_word", "analyze_sentence"} =>
       morphOut["lemmatize_word"] = morphOut["analyze_sentence"]

C10_Witness ==
  /\ DOMAIN morphOut = {"lemmatize_word", "analyze_sentence"}
  /\ feature = <<"k", "=", "|", "v">>
  /\ morphOut["lemmatize_word"] = (<<"k">> :> <<>>)

====
